---- MODULE Spec2Model ----
(***************************************************************************)
(* Red-frame crossing tracker (backend/red_tracking_utils.py) driven by    *)
(* the frame loop of backend/main.py, with the event hand-off of           *)
(* backend/websocket_server.py.                                            *)
(*                                                                         *)
(* Coordinates are integers.  The margin test of is_point_in_bbox          *)
(* (x + 0.1*w <= px <= x + w - 0.1*w) is evaluated in tenths; every width  *)
(* and height used below is a multiple of 10, for which the float products *)
(* w*0.1 are exact.                                                        *)
(***************************************************************************)
EXTENDS Integers, Sequences, FiniteSets, TLC

VARIABLES
    script,           \* the entry script that runs: "main", "screen_capture_tracker" or
                      \* "red_frame_crossing_tracker"
    hsv_params,       \* red_tracking_utils.hsv_params: the eight thresholds
    trackbars,        \* the positions of the eight trackbars of the "HSV Controls" window
    connected_clients,\* websocket_server.connected_clients: the set of connections
    clients,          \* per connection: its status ("new": not yet made, "open", "closed_ok" /
                      \* "closed_error": ended, handler not yet resumed, "done": handler returned),
                      \* the messages it received, and how many events had been taken from the
                      \* queue when it connected
    broadcaster,      \* the event_broadcaster task: "none" (not created), "running", "dead"
    woken,            \* the server thread's event loop is running callbacks (not blocked in select)
    cnts,             \* detect_red_frames: the contours found in the mask, with their hierarchy rows
    pc,               \* main(): "start" (before the first frame), "objects" (in the zip loop), "crashed";
                      \* detect_red_frames on its own: "detect" (called), "detected" (returned);
                      \* tuning: "tuning" (a trackbar moved), "updated" (update_hsv_params returned)
    red_frames,       \* main(): red_frames of the current frame
    frame_ids,        \* object ids the zip loop already handled in this frame
    was_inside,       \* CrossingTracker.was_inside      (defaultdict(bool))
    crossing_counts,  \* CrossingTracker.crossing_counts (defaultdict(int))
    total_crossings,  \* CrossingTracker.total_crossings
    event_queue,      \* websocket_server.event_queue: None or the queued events
    broadcasted,      \* events event_broadcaster took from the queue, in order
    last,             \* observation of the most recent update call of this frame
    samples,          \* per id: is_inside_now and the value returned, for each of its update calls in order,
                      \* with the crossing_count handed to send_crossing_event (0: no event) and
                      \* what became of the event
    missed            \* per id: a whole frame went by without the id since its last update

vars == <<script, hsv_params, trackbars, connected_clients, clients, broadcaster, woken, cnts, pc, red_frames, frame_ids, was_inside, crossing_counts, total_crossings,
          event_queue, broadcasted, last, samples, missed>>

----------------------------------------------------------------------------
(* Bounds *)

MaxIds    == 2     \* object ids 1..MaxIds
MaxCalls  == 5     \* update calls in a run
MaxShapes == 2     \* connected red components in one mask
MaxApiCalls == 3     \* update calls in a run that draws its boxes from AnyBoxes
MaxServerCalls == 3  \* update calls in a run with the server thread
MaxClientCalls == 2  \* update calls in a run with WebSocket clients
MaxClients == 2      \* WebSocket connections made in a run

Clients == 1 .. MaxClients

Ids == 1 .. MaxIds

NoIdx == -1        \* hierarchy entry "no such contour"

----------------------------------------------------------------------------
(* Parameters of red_tracking_utils.py *)

MIN_OUTER_AREA == 1000
MIN_INNER_AREA == 300
HOLE_RATIO_MIN_PCT == 10     \* HOLE_RATIO_MIN = 0.10
HOLE_RATIO_MAX_PCT == 90     \* HOLE_RATIO_MAX = 0.90

DEFAULT_H1_LOW == 0
DEFAULT_H1_HIGH == 9
DEFAULT_H2_LOW == 150
DEFAULT_H2_HIGH == 180
DEFAULT_S_LOW == 160
DEFAULT_S_HIGH == 255
DEFAULT_V_LOW == 193
DEFAULT_V_HIGH == 255

\* HSVParams.__init__
DefaultHSV ==
    [h1_low |-> DEFAULT_H1_LOW, h1_high |-> DEFAULT_H1_HIGH,
     h2_low |-> DEFAULT_H2_LOW, h2_high |-> DEFAULT_H2_HIGH,
     s_low |-> DEFAULT_S_LOW, s_high |-> DEFAULT_S_HIGH,
     v_low |-> DEFAULT_V_LOW, v_high |-> DEFAULT_V_HIGH]

----------------------------------------------------------------------------
(* Python numerics *)

\* int(n / d) for d > 0: truncation toward zero
TruncDiv(n, d) == IF n >= 0 THEN n \div d ELSE -((-n) \div d)

----------------------------------------------------------------------------
(* Contours as cv2.findContours(mask, RETR_CCOMP, ...) returns them: every  *)
(* contour of the mask is in the list, outer boundaries (parent = NoIdx)    *)
(* and hole boundaries (parent = index of the outer contour) alike.         *)
(* A contour carries its area, bounding rectangle, moments and its          *)
(* hierarchy row (first_child, parent).  Indices are 1-based.               *)

OuterBoxes == { <<0, 0, 100, 100>>, <<0, 0, 200, 50>>, <<0, 0, 300, 50>>,
                <<0, 0, 250, 50>>,          \* w / h = 5.0
                <<0, 0, 50, 250>>,          \* w / h = 0.2
                <<0, 0, 50, 300>>,          \* w / h < 0.2
                <<0, 0, 101, 100>> }        \* odd width: x + w / 2 = 50.5
OuterAreas == { 999, 1000, 5000 }
HoleBox    == <<30, 10, 40, 30>>
HoleAreas  == { 0, 299, 300, 1000 }     \* 0: the component has no hole

\* a connected red component: its outer boundary and at most one hole
Shapes == { s \in [obox : OuterBoxes, oarea : OuterAreas, harea : HoleAreas] :
              /\ s.harea < s.oarea
              /\ s.harea > 0 => /\ HoleBox[1] + HoleBox[3] <= s.obox[1] + s.obox[3]
                                /\ HoleBox[2] + HoleBox[4] <= s.obox[2] + s.obox[4] }

\* moments of a contour of the given area whose centroid is (cx, cy) plus a fraction
Moments(area, cx, cy) ==
    [m00 |-> area, m10 |-> area * cx + area \div 2, m01 |-> area * cy + area \div 3]

OuterContour(s, child) ==
    [area |-> s.oarea, rect |-> s.obox, first_child |-> child, parent |-> NoIdx,
     M |-> Moments(s.oarea, s.obox[1] + s.obox[3] \div 2, s.obox[2] + s.obox[4] \div 2)]

HoleContour(s, parent) ==
    [area |-> s.harea, rect |-> HoleBox, first_child |-> NoIdx, parent |-> parent,
     M |-> Moments(s.harea, HoleBox[1] + HoleBox[3] \div 2, HoleBox[2] + HoleBox[4] \div 2)]

\* cnts zipped with hier[0] for a mask made of the shapes ss
RECURSIVE FindContours(_, _)
FindContours(ss, base) ==
    IF ss = <<>> THEN <<>>
    ELSE LET s == Head(ss) IN
         IF s.harea = 0
         THEN <<OuterContour(s, NoIdx)>> \o FindContours(Tail(ss), base + 1)
         ELSE <<OuterContour(s, base + 2), HoleContour(s, base + 1)>>
                  \o FindContours(Tail(ss), base + 2)

ShapeLists == UNION { [1 .. n -> Shapes] : n \in 0 .. MaxShapes }

----------------------------------------------------------------------------
(* red_tracking_utils.py: detection *)

\* Python None for an optional tuple or contour is the empty sequence
Nothing == <<>>

contour_center(cnt) ==
    IF cnt.M.m00 = 0 THEN Nothing
    ELSE <<TruncDiv(cnt.M.m10, cnt.M.m00), TruncDiv(cnt.M.m01, cnt.M.m00)>>

\* variant: a contour whose hole is too small is skipped
DetectContour_drop(contours, i) ==
    LET c_outer == contours[i]
        x == c_outer.rect[1]
        y == c_outer.rect[2]
        w == c_outer.rect[3]
        h == c_outer.rect[4]
        child_idx == c_outer.first_child
        bbox_detection ==
            [outer_bbox |-> <<x, y, w, h>>,
             center |-> <<TruncDiv(2 * x + w, 2), TruncDiv(2 * y + h, 2)>>,
             inner_contour |-> Nothing,
             outer_contour |-> c_outer,
             type |-> "bbox"]
    IN  IF c_outer.area < MIN_OUTER_AREA THEN <<>>
        ELSE IF w = 0 \/ h = 0 THEN <<>>
        ELSE IF 5 * w < h \/ w > 5 * h THEN <<>>
        ELSE IF child_idx # NoIdx /\ contours[child_idx].area < MIN_INNER_AREA THEN <<>>
        ELSE IF child_idx # NoIdx
                /\ contours[child_idx].area >= MIN_INNER_AREA
                /\ contour_center(contours[child_idx]) # Nothing
             THEN << [outer_bbox |-> <<x, y, w, h>>,
                      center |-> contour_center(contours[child_idx]),
                      inner_contour |-> <<contours[child_idx]>>,
                      outer_contour |-> c_outer,
                      type |-> "hole"] >>
             ELSE <<bbox_detection>>

\* variant: the area bound is exclusive
DetectContour_strict(contours, i) ==
    LET c_outer == contours[i]
        x == c_outer.rect[1]
        y == c_outer.rect[2]
        w == c_outer.rect[3]
        h == c_outer.rect[4]
        child_idx == c_outer.first_child
        bbox_detection ==
            [outer_bbox |-> <<x, y, w, h>>,
             center |-> <<TruncDiv(2 * x + w, 2), TruncDiv(2 * y + h, 2)>>,
             inner_contour |-> Nothing,
             outer_contour |-> c_outer,
             type |-> "bbox"]
    IN  IF c_outer.area <= MIN_OUTER_AREA THEN <<>>
        ELSE IF w = 0 \/ h = 0 THEN <<>>
        ELSE IF 5 * w < h \/ w > 5 * h THEN <<>>
        ELSE IF child_idx # NoIdx
                /\ contours[child_idx].area >= MIN_INNER_AREA
                /\ contour_center(contours[child_idx]) # Nothing
             THEN << [outer_bbox |-> <<x, y, w, h>>,
                      center |-> contour_center(contours[child_idx]),
                      inner_contour |-> <<contours[child_idx]>>,
                      outer_contour |-> c_outer,
                      type |-> "hole"] >>
             ELSE <<bbox_detection>>

\* the body of the for loop of detect_red_frames for contour i: the detections it appends
DetectContour(contours, i) ==
    LET c_outer == contours[i]
        x == c_outer.rect[1]
        y == c_outer.rect[2]
        w == c_outer.rect[3]
        h == c_outer.rect[4]
        child_idx == c_outer.first_child
        bbox_detection ==
            [outer_bbox |-> <<x, y, w, h>>,
             center |-> <<TruncDiv(2 * x + w, 2), TruncDiv(2 * y + h, 2)>>,
             inner_contour |-> Nothing,
             outer_contour |-> c_outer,
             type |-> "bbox"]
    IN  IF c_outer.area < MIN_OUTER_AREA THEN <<>>
        ELSE IF w = 0 \/ h = 0 THEN <<>>
        ELSE IF 5 * w < h \/ w > 5 * h THEN <<>>
        ELSE IF child_idx # NoIdx
                /\ contours[child_idx].area >= MIN_INNER_AREA
                /\ contour_center(contours[child_idx]) # Nothing
             THEN << [outer_bbox |-> <<x, y, w, h>>,
                      center |-> contour_center(contours[child_idx]),
                      inner_contour |-> <<contours[child_idx]>>,
                      outer_contour |-> c_outer,
                      type |-> "hole"] >>
             ELSE <<bbox_detection>>

RECURSIVE DetectFrom(_, _)
DetectFrom(contours, i) ==
    IF i > Len(contours) THEN <<>>
    ELSE DetectContour(contours, i) \o DetectFrom(contours, i + 1)

\* hier is None exactly when the mask has no contour
detect_red_frames(contours) ==
    IF Len(contours) = 0 THEN <<>> ELSE DetectFrom(contours, 1)

----------------------------------------------------------------------------
(* red_tracking_utils.py: inside test *)

\* variant: a point on the shrunk bounds is outside
is_point_in_bbox_strict(point, bbox) ==
    LET x == bbox[1]
        y == bbox[2]
        w == bbox[3]
        h == bbox[4]
        px == point[1]
        py == point[2]
    IN  /\ 10 * x + w < 10 * px
        /\ 10 * px < 10 * x + 10 * w - w
        /\ 10 * y + h < 10 * py
        /\ 10 * py < 10 * y + 10 * h - h

\* margin_x = w * 0.1 and margin_y = h * 0.1, compared in tenths of a pixel
is_point_in_bbox(point, bbox) ==
    LET x == bbox[1]
        y == bbox[2]
        w == bbox[3]
        h == bbox[4]
        px == point[1]
        py == point[2]
    IN  /\ 10 * x + w <= 10 * px
        /\ 10 * px <= 10 * x + 10 * w - w
        /\ 10 * y + h <= 10 * py
        /\ 10 * py <= 10 * y + 10 * h - h

ObjCenter(box) == <<TruncDiv(box[1] + box[3], 2), TruncDiv(box[2] + box[4], 2)>>
ObjArea(box) == (box[3] - box[1]) * (box[4] - box[2])
FrameArea(frame_info) == frame_info.outer_bbox[3] * frame_info.outer_bbox[4]

\* variant: the size condition skips a frame only when the object is strictly larger
FrameQualifies_gt(box, frame_info) ==
    IF ObjArea(box) > FrameArea(frame_info) THEN FALSE
    ELSE is_point_in_bbox(ObjCenter(box), frame_info.outer_bbox)

\* one pass of the for loop of update over frame k: does it set is_inside_now and break
FrameQualifies(box, frame_info) ==
    IF ObjArea(box) >= FrameArea(frame_info) THEN FALSE
    ELSE is_point_in_bbox(ObjCenter(box), frame_info.outer_bbox)

\* variant: without the break the last frame of the list decides
ScanFrames_last(box, frames, k) ==
    IF k > Len(frames) THEN FALSE
    ELSE FrameQualifies(box, frames[Len(frames)])

\* the for loop of update from frame k on: is_inside_now after the loop
RECURSIVE ScanFrames(_, _, _)
ScanFrames(box, frames, k) ==
    IF k > Len(frames) THEN FALSE
    ELSE IF FrameQualifies(box, frames[k]) THEN TRUE
    ELSE ScanFrames(box, frames, k + 1)

----------------------------------------------------------------------------
(* defaultdict *)

\* variant: ids start out as inside
DefaultBool_true == TRUE

\* the default factories bool() and int() of the two defaultdicts
DefaultBool == FALSE
DefaultInt == 0

\* variant: a plain dict, whose read of a missing key raises KeyError
Lookup_dict(d, k, dflt) ==
    IF k \in DOMAIN d THEN [raised |-> FALSE, val |-> d[k]]
    ELSE [raised |-> TRUE, val |-> dflt]

\* d[k] of a defaultdict with default value dflt: the value read
Lookup(d, k, dflt) ==
    IF k \in DOMAIN d THEN [raised |-> FALSE, val |-> d[k]]
    ELSE [raised |-> FALSE, val |-> dflt]

\* d[k] of a defaultdict: a missing key is inserted with the default by the read
Touch(d, k, dflt) ==
    IF k \in DOMAIN d THEN d ELSE d @@ (k :> dflt)

\* variant: the mapping is rebuilt with the one key, forgetting the other ids
Store_reset(d, k, v) == (k :> v)

\* d[k] = v
Store(d, k, v) ==
    IF k \in DOMAIN d THEN [d EXCEPT ![k] = v] ELSE d @@ (k :> v)

----------------------------------------------------------------------------
(* CrossingTracker.update: the tracker after the call, the value returned   *)
(* and whether the call raised.                                             *)

\* the number of frames from k on that pass both conditions of the for loop
RECURSIVE CountQualifying(_, _, _)
CountQualifying(box, frames, k) ==
    IF k > Len(frames) THEN 0
    ELSE (IF FrameQualifies(box, frames[k]) THEN 1 ELSE 0)
             + CountQualifying(box, frames, k + 1)

\* what update leaves behind and returns when it does not raise
UpdateReturn(crossed, is_inside_now, wi, cc, tc) ==
    [raised |-> FALSE, crossed |-> crossed, is_inside_now |-> is_inside_now,
     was_inside |-> wi, crossing_counts |-> cc, total_crossings |-> tc]

\* variant: was_inside is written only when the object is inside, never reset
update_stale(object_id, box, frames) ==
    LET is_inside_now == ScanFrames(box, frames, 1)
        w == Lookup(was_inside, object_id, DefaultBool)
        c == Lookup(crossing_counts, object_id, DefaultInt)
        crossed == is_inside_now /\ ~w.val
    IN  UpdateReturn(crossed, is_inside_now,
            IF is_inside_now THEN Store(was_inside, object_id, TRUE)
            ELSE Touch(was_inside, object_id, DefaultBool),
            IF crossed THEN Store(crossing_counts, object_id, c.val + 1)
            ELSE crossing_counts,
            IF crossed THEN total_crossings + 1 ELSE total_crossings)

\* variant: the running total is not kept
update_noTotal(object_id, box, frames) ==
    LET is_inside_now == ScanFrames(box, frames, 1)
        w == Lookup(was_inside, object_id, DefaultBool)
        c == Lookup(crossing_counts, object_id, DefaultInt)
        crossed == is_inside_now /\ ~w.val
    IN  UpdateReturn(crossed, is_inside_now,
            Store(was_inside, object_id, is_inside_now),
            IF crossed THEN Store(crossing_counts, object_id, c.val + 1)
            ELSE crossing_counts,
            total_crossings)

\* variant: every inside sample counts, whatever was_inside holds
update_level(object_id, box, frames) ==
    LET is_inside_now == ScanFrames(box, frames, 1)
        c == Lookup(crossing_counts, object_id, DefaultInt)
        crossed == is_inside_now
    IN  UpdateReturn(crossed, is_inside_now,
            Store(was_inside, object_id, is_inside_now),
            IF crossed THEN Store(crossing_counts, object_id, c.val + 1)
            ELSE crossing_counts,
            IF crossed THEN total_crossings + 1 ELSE total_crossings)

\* variant: the counters are incremented inside the for loop, once per qualifying frame
update_perFrame(object_id, box, frames) ==
    LET is_inside_now == ScanFrames(box, frames, 1)
        n == CountQualifying(box, frames, 1)
        w == Lookup(was_inside, object_id, DefaultBool)
        c == Lookup(crossing_counts, object_id, DefaultInt)
        crossed == is_inside_now /\ ~w.val
    IN  UpdateReturn(crossed, is_inside_now,
            Store(was_inside, object_id, is_inside_now),
            IF crossed THEN Store(crossing_counts, object_id, c.val + n)
            ELSE crossing_counts,
            IF crossed THEN total_crossings + n ELSE total_crossings)

\* variant: a crossing sets the count of the id to 1
update_setOne(object_id, box, frames) ==
    LET is_inside_now == ScanFrames(box, frames, 1)
        w == Lookup(was_inside, object_id, DefaultBool)
        crossed == is_inside_now /\ ~w.val
    IN  UpdateReturn(crossed, is_inside_now,
            Store(was_inside, object_id, is_inside_now),
            IF crossed THEN Store(crossing_counts, object_id, 1)
            ELSE crossing_counts,
            IF crossed THEN total_crossings + 1 ELSE total_crossings)

\* what update leaves behind when a read of one of its mappings raises
UpdateRaise(is_inside_now) ==
    [raised |-> TRUE, crossed |-> FALSE, is_inside_now |-> is_inside_now,
     was_inside |-> was_inside, crossing_counts |-> crossing_counts,
     total_crossings |-> total_crossings]

update(object_id, box, frames) ==
    LET is_inside_now == ScanFrames(box, frames, 1)
        \* "is_inside_now and not self.was_inside[object_id]": the right operand is
        \* evaluated only when is_inside_now holds
        w == Lookup(was_inside, object_id, DefaultBool)
        c == Lookup(crossing_counts, object_id, DefaultInt)
        crossed == is_inside_now /\ ~w.raised /\ ~w.val
    IN  IF is_inside_now /\ w.raised THEN UpdateRaise(is_inside_now)
        ELSE IF crossed /\ c.raised THEN UpdateRaise(is_inside_now)
        ELSE UpdateReturn(crossed, is_inside_now,
                 Store(was_inside, object_id, is_inside_now),
                 IF crossed THEN Store(crossing_counts, object_id, c.val + 1)
                 ELSE crossing_counts,
                 IF crossed THEN total_crossings + 1 ELSE total_crossings)

----------------------------------------------------------------------------
(* websocket_server.py *)

\* event_queue = None (websocket_server.py 17)
NoQueue == [is_none |-> TRUE, maxsize |-> 0, items |-> <<>>]

\* asyncio.Queue.full(): a maxsize of 0 or less means the queue never is
QueueFull(queue) == queue.maxsize > 0 /\ Len(queue.items) >= queue.maxsize

\* variant: without the check of line 72, None.put_nowait is not an asyncio.QueueFull
\* and leaves the function as an exception
SendOutcome_noguard(queue) ==
    IF queue.is_none THEN "raised"
    ELSE IF QueueFull(queue) THEN "dropped"
    ELSE "accepted"

\* what send_crossing_event does with the event: "dropped" (no queue yet, or
\* put_nowait raised QueueFull and the exception was swallowed), "accepted", or
\* "raised" when an exception leaves the function (no path of the code does)
SendOutcome(queue) ==
    IF queue.is_none THEN "dropped"
    ELSE IF QueueFull(queue) THEN "dropped"
    ELSE "accepted"

\* variant: the event carries the clock reading as its count
CrossingEvent_stamp(object_id, object_name, crossing_count, now) ==
    [type |-> "crossing", object_id |-> object_id, object_name |-> object_name,
     crossing_count |-> now, timestamp |-> now]

\* the event dict of lines 75-81
CrossingEvent(object_id, object_name, crossing_count, now) ==
    [type |-> "crossing", object_id |-> object_id, object_name |-> object_name,
     crossing_count |-> crossing_count, timestamp |-> now]

\* no event
NoEvent == [type |-> "none", object_id |-> 0, object_name |-> "", crossing_count |-> 0,
            timestamp |-> 0]

\* variant: a caller that finds no queue creates one for its event
send_crossing_event_lazy(queue, object_id, object_name, crossing_count, now) ==
    IF queue.is_none
    THEN [is_none |-> FALSE, maxsize |-> 0,
          items |-> <<CrossingEvent(object_id, object_name, crossing_count, now)>>]
    ELSE IF SendOutcome(queue) # "accepted" THEN queue
    ELSE [queue EXCEPT !.items =
             Append(@, CrossingEvent(object_id, object_name, crossing_count, now))]

\* send_crossing_event: the queue after the call.  now is the value of
\* asyncio.get_event_loop().time(), a clock that never runs backwards.
send_crossing_event(queue, object_id, object_name, crossing_count, now) ==
    IF SendOutcome(queue) # "accepted" THEN queue
    ELSE [queue EXCEPT !.items =
             Append(@, CrossingEvent(object_id, object_name, crossing_count, now))]

\* a connection that has not been made yet
NewClient == [status |-> "new", received |-> <<>>, joined |-> 0]

\* the handler of connection c has added it and not yet reached its finally block
HandlerRunning(c) == clients[c].status \in {"open", "closed_ok", "closed_error"}

\* client.send raises ConnectionClosed once the connection has ended
SendFails(c) == clients[c].status # "open"

\* asyncio.gather: with return_exceptions the exceptions of the awaitables are
\* results; without it the first one is raised in the caller
gather(failed, return_exceptions) ==
    IF failed # {} /\ ~return_exceptions THEN "raised" ELSE "returned"

\* variant: gather is called without return_exceptions
broadcast_propagate(to) ==
    IF to = {} THEN "returned"
    ELSE gather({ c \in to : SendFails(c) }, FALSE)

\* broadcast: how the call ends when connected_clients is the set to
broadcast(to) ==
    IF to = {} THEN "returned"
    ELSE gather({ c \in to : SendFails(c) }, TRUE)

\* the clients after message went out to the set to: every send that does not
\* fail delivers it
Deliver(message, to) ==
    [c \in Clients |->
        IF c \in to /\ ~SendFails(c)
        THEN [clients[c] EXCEPT !.received = Append(@, message)]
        ELSE clients[c]]

----------------------------------------------------------------------------
(* Inputs of the frame loop *)

\* boxes (x1, y1, x2, y2) the external tracker reports
ObjectBoxes == { <<40, 40, 60, 60>>,        \* small, centre (50, 50)
                 <<40, 10, 60, 40>>,        \* small, centre (50, 25)
                 <<0, 0, 10, 10>>,          \* small, centre (5, 5): in the margin band
                 <<0, 0, 100, 100>> }       \* centre (50, 50), area 10000

\* boxes whose centre is on or next to the shrunk bounds of a 100 x 100 frame at (0, 0)
EdgeBoxes == { <<0, 0, 20, 20>>,            \* centre (10, 10)
               <<81, 40, 100, 60>>,         \* midpoint (90.5, 50), centre (90, 50)
               <<82, 40, 100, 60>> }        \* centre (91, 50)

\* boxes with x1 > x2
InvertedBoxes == { <<60, 40, 40, 60>> }     \* centre (50, 50), area -400

\* boxes a caller of update may pass
AnyBoxes == ObjectBoxes \cup EdgeBoxes \cup InvertedBoxes

\* model.names[cls_id]: the class the external tracker assigns to an id
NameOf(obj_id) == IF obj_id % 2 = 1 THEN "bottle" ELSE "cup"

\* the masks the frame loop meets: intact components without a hole
LoopShapes == { s \in Shapes : /\ s.oarea = 5000 /\ s.harea = 0
                                /\ s.obox \in { <<0, 0, 100, 100>>, <<0, 0, 200, 50>> } }
LoopShapeLists == UNION { [1 .. n -> LoopShapes] : n \in 0 .. MaxShapes }

NoCall == [id |-> 0, box |-> <<0, 0, 0, 0>>, raised |-> FALSE, crossed |-> FALSE,
           is_inside_now |-> FALSE, pre_known |-> FALSE, pre_was |-> FALSE,
           pre_count |-> 0, pre_total |-> 0, pre_missed |-> FALSE, count |-> 0,
           sent |-> "no", handed |-> NoEvent]

RECURSIVE SumLen(_, _)
SumLen(f, S) ==
    IF S = {} THEN 0
    ELSE LET j == CHOOSE k \in S : TRUE IN Len(f[j]) + SumLen(f, S \ {j})

Calls == SumLen(samples, Ids)

----------------------------------------------------------------------------
(* State machine *)

Init ==
    /\ script = "main"
    /\ hsv_params = DefaultHSV
    /\ trackbars = DefaultHSV
    /\ connected_clients = {}
    /\ clients = [c \in Clients |-> NewClient]
    /\ broadcaster = "none"
    /\ woken = FALSE
    /\ cnts = <<>>
    /\ pc = "start"
    /\ red_frames = <<>>
    /\ frame_ids = {}
    /\ was_inside = <<>>
    /\ crossing_counts = <<>>
    /\ total_crossings = 0
    /\ event_queue = NoQueue
    /\ broadcasted = <<>>
    /\ last = NoCall
    /\ samples = [j \in Ids |-> <<>>]
    /\ missed = [j \in Ids |-> FALSE]

\* main.py 129-167: the next pass of while True begins: a frame is captured, the
\* mask made of the shapes ss is analysed and the external tracker is run.  When a
\* pass was under way this ends it (main.py 192-212, the key read is not q or ESC).
CaptureFrame(ss) ==
    /\ pc \in {"start", "objects"}
    /\ cnts' = FindContours(ss, 0)
    /\ red_frames' = detect_red_frames(cnts')
    /\ pc' = "objects"
    /\ frame_ids' = {}
    /\ last' = NoCall
    /\ missed' = [j \in Ids |-> IF pc = "start" \/ j \in frame_ids THEN FALSE
                                ELSE (missed[j] \/ j \in DOMAIN was_inside)]
    /\ UNCHANGED <<script, connected_clients, clients, broadcaster, hsv_params, trackbars, woken, was_inside, crossing_counts,
                   total_crossings, event_queue, broadcasted, samples>>

\* main.py 169-190 (screen_capture_tracker.py 226-246, red_frame_crossing_tracker.py
\* 82-97): one pass of the zip loop, for the observation (obj_id, box, cls_id).  The
\* clock read by send_crossing_event is counted in crossings.
ProcessObject(obj_id, box) ==
    /\ pc = "objects"
    /\ obj_id \notin frame_ids
    /\ Calls < MaxCalls
    /\ LET r == update(obj_id, box, red_frames)
           cnt == Lookup(r.crossing_counts, obj_id, DefaultInt)
           failed == r.raised \/ cnt.raised
           \* red_frame_crossing_tracker.py 89-90 only prints the crossing
           sends == r.crossed /\ ~failed /\ script # "red_frame_crossing_tracker"
           outcome == IF sends THEN SendOutcome(event_queue) ELSE "no"
       IN  /\ pc' = IF failed \/ outcome = "raised" THEN "crashed" ELSE "objects"
           /\ was_inside' = r.was_inside
           /\ crossing_counts' =
                  IF failed THEN r.crossing_counts
                  ELSE Touch(r.crossing_counts, obj_id, DefaultInt)
           /\ total_crossings' = r.total_crossings
           /\ event_queue' =
                  IF sends
                  THEN send_crossing_event(event_queue, obj_id, NameOf(obj_id), cnt.val,
                                           r.total_crossings)
                  ELSE event_queue
           /\ last' = [id |-> obj_id, box |-> box, raised |-> failed,
                       crossed |-> r.crossed, is_inside_now |-> r.is_inside_now,
                       pre_known |-> obj_id \in DOMAIN was_inside,
                       pre_was |-> IF obj_id \in DOMAIN was_inside
                                   THEN was_inside[obj_id] ELSE FALSE,
                       pre_count |-> IF obj_id \in DOMAIN crossing_counts
                                     THEN crossing_counts[obj_id] ELSE 0,
                       pre_total |-> total_crossings,
                       pre_missed |-> missed[obj_id],
                       count |-> cnt.val,
                       sent |-> outcome,
                       handed |-> IF sends
                                  THEN CrossingEvent(obj_id, NameOf(obj_id), cnt.val,
                                                     r.total_crossings)
                                  ELSE NoEvent]
           /\ samples' = [samples EXCEPT ![obj_id] =
                              Append(@, [inside |-> r.is_inside_now, crossed |-> r.crossed,
                                         handed |-> IF sends
                                                    THEN CrossingEvent(obj_id, NameOf(obj_id),
                                                             cnt.val, r.total_crossings).crossing_count
                                                    ELSE 0,
                                         sent |-> outcome])]
    /\ frame_ids' = frame_ids \cup {obj_id}
    /\ missed' = [missed EXCEPT ![obj_id] = FALSE]
    /\ UNCHANGED <<script, connected_clients, clients, broadcaster, hsv_params, trackbars, woken, cnts, red_frames, broadcasted>>

\* websocket_server.py 53-63: the server thread creates the queue (asyncio.Queue()
\* has maxsize 0: no capacity limit) and starts event_broadcaster, which finds the
\* queue empty and waits in get(); the event loop then blocks in select
StartServer ==
    /\ event_queue.is_none
    /\ script # "red_frame_crossing_tracker"
    /\ event_queue' = [is_none |-> FALSE, maxsize |-> 0, items |-> <<>>]
    /\ broadcaster' = "running"
    /\ woken' = FALSE
    /\ UNCHANGED <<script, connected_clients, clients, hsv_params, trackbars, cnts, pc, red_frames, frame_ids, was_inside, crossing_counts,
                   total_crossings, broadcasted, last, samples, missed>>

\* variant: the newest event is taken first
EventBroadcaster_lifo ==
    /\ ~event_queue.is_none
    /\ broadcaster = "running"
    /\ woken
    /\ event_queue.items # <<>>
    /\ broadcasted' = Append(broadcasted, event_queue.items[Len(event_queue.items)])
    /\ event_queue' = [event_queue EXCEPT !.items = SubSeq(@, 1, Len(@) - 1)]
    /\ clients' = Deliver(event_queue.items[Len(event_queue.items)], connected_clients)
    /\ broadcaster' = IF broadcast(connected_clients) = "raised" THEN "dead" ELSE "running"
    /\ UNCHANGED <<script, connected_clients, hsv_params, trackbars, woken, cnts, pc, red_frames, frame_ids, was_inside, crossing_counts,
                   total_crossings, last, samples, missed>>

\* websocket_server.py 45-50: event_broadcaster takes the oldest event and broadcasts
\* it.  The task runs only while the event loop of the server thread runs callbacks.
EventBroadcaster ==
    /\ ~event_queue.is_none
    /\ broadcaster = "running"
    /\ woken
    /\ event_queue.items # <<>>
    /\ broadcasted' = Append(broadcasted, Head(event_queue.items))
    /\ event_queue' = [event_queue EXCEPT !.items = Tail(@)]
    \* broadcast (35-42): one send per connection of connected_clients; an exception
    \* that leaves broadcast ends the task
    /\ clients' = Deliver(Head(event_queue.items), connected_clients)
    /\ broadcaster' = IF broadcast(connected_clients) = "raised" THEN "dead" ELSE "running"
    /\ UNCHANGED <<script, connected_clients, hsv_params, trackbars, woken, cnts, pc, red_frames, frame_ids, was_inside, crossing_counts,
                   total_crossings, last, samples, missed>>

\* websocket_server.py 20-32, 59: the selector of the server loop returns because of
\* network input (a client connects, sends or closes) or a timer of the websockets
\* library, and the loop runs its ready callbacks.  put_nowait of the frame-loop
\* thread (line 84) wakes the getter with Future.set_result, which schedules the
\* callback with call_soon and does not write to the loop's self-pipe: it is not
\* such a step.
LoopWake ==
    /\ ~event_queue.is_none
    /\ ~woken
    /\ woken' = TRUE
    /\ UNCHANGED <<script, connected_clients, clients, broadcaster, hsv_params, trackbars, cnts, pc, red_frames, frame_ids, was_inside, crossing_counts,
                   total_crossings, event_queue, broadcasted, last, samples, missed>>

\* websocket_server.py 47-49: event_broadcaster finds the queue empty, waits in
\* get(), and the server loop blocks in its selector
LoopIdle ==
    /\ ~event_queue.is_none
    /\ woken
    /\ event_queue.items = <<>> \/ broadcaster = "dead"
    /\ \A c \in Clients : clients[c].status \notin {"closed_ok", "closed_error"}
    /\ woken' = FALSE
    /\ UNCHANGED <<script, connected_clients, clients, broadcaster, hsv_params, trackbars, cnts, pc, red_frames, frame_ids, was_inside, crossing_counts,
                   total_crossings, event_queue, broadcasted, last, samples, missed>>

\* the frame loop and the server thread
Next ==
    \/ \E ss \in LoopShapeLists : CaptureFrame(ss)
    \/ \E obj_id \in Ids, box \in ObjectBoxes : ProcessObject(obj_id, box)
    \/ StartServer
    \/ EventBroadcaster
    \/ LoopWake
    \/ LoopIdle

Spec == Init /\ [][Next]_vars

\* the frame loop alone: the steps of the main thread.  The server thread only
\* touches event_queue and broadcasted, never the tracker.
NextLoop ==
    \/ \E ss \in LoopShapeLists : CaptureFrame(ss)
    \/ \E obj_id \in Ids, box \in ObjectBoxes : ProcessObject(obj_id, box)

SpecLoop == Init /\ [][NextLoop]_vars

\* a pass of the zip loop in a run of at most MaxApiCalls update calls
UpdateCall(obj_id, box) ==
    /\ Calls < MaxApiCalls
    /\ ProcessObject(obj_id, box)

\* the frame loop with update called on any box
NextCalls ==
    \/ \E ss \in LoopShapeLists : CaptureFrame(ss)
    \/ \E obj_id \in Ids, box \in AnyBoxes : UpdateCall(obj_id, box)

SpecCalls == Init /\ [][NextCalls]_vars

----------------------------------------------------------------------------
(* The three scripts with their server thread, in runs of at most MaxServerCalls
   update calls *)

Scripts == {"main", "screen_capture_tracker", "red_frame_crossing_tracker"}

ServerBoxes == { <<40, 40, 60, 60>>,        \* small, centre (50, 50)
                 <<0, 0, 10, 10>> }         \* small, centre (5, 5): in the margin band

InitServer ==
    /\ script \in Scripts
    /\ hsv_params = DefaultHSV
    /\ trackbars = DefaultHSV
    /\ connected_clients = {}
    /\ clients = [c \in Clients |-> NewClient]
    /\ broadcaster = "none"
    /\ woken = FALSE
    /\ cnts = <<>>
    /\ pc = "start"
    /\ red_frames = <<>>
    /\ frame_ids = {}
    /\ was_inside = <<>>
    /\ crossing_counts = <<>>
    /\ total_crossings = 0
    /\ event_queue = NoQueue
    /\ broadcasted = <<>>
    /\ last = NoCall
    /\ samples = [j \in Ids |-> <<>>]
    /\ missed = [j \in Ids |-> FALSE]

ServerCall(obj_id, box) ==
    /\ Calls < MaxServerCalls
    /\ ProcessObject(obj_id, box)

NextServer ==
    \/ \E ss \in LoopShapeLists : CaptureFrame(ss)
    \/ \E obj_id \in Ids, box \in ServerBoxes : ServerCall(obj_id, box)
    \/ StartServer
    \/ EventBroadcaster
    \/ LoopWake
    \/ LoopIdle

SpecServer == InitServer /\ [][NextServer]_vars

\* both threads are scheduled: the frame loop goes on to its next pass,
\* event_broadcaster runs whenever the server loop has woken and an event is
\* queued, and the server loop goes back to its selector when nothing is left to
\* do.  Nothing obliges the network to produce input.
SpecServerFair ==
    /\ SpecServer
    /\ WF_vars(\E ss \in LoopShapeLists : CaptureFrame(ss))
    /\ WF_vars(EventBroadcaster)
    /\ WF_vars(LoopIdle)

----------------------------------------------------------------------------
(* main.py with its server thread and WebSocket clients *)

\* websocket_server.py 20-23: a client connects; the server loop wakes for the
\* handshake and the handler adds the connection
HandlerConnect(c) ==
    /\ ~event_queue.is_none
    /\ clients[c].status = "new"
    /\ connected_clients' = connected_clients \cup {c}
    /\ clients' = [clients EXCEPT ![c] = [status |-> "open", received |-> <<>>,
                                          joined |-> Len(broadcasted)]]
    /\ woken' = TRUE
    /\ UNCHANGED <<script, hsv_params, trackbars, broadcaster, cnts, pc, red_frames, frame_ids,
                   was_inside, crossing_counts, total_crossings, event_queue, broadcasted,
                   last, samples, missed>>

\* the connection of c ends: with a closing handshake (how = "closed_ok") or
\* without one (how = "closed_error").  The server loop wakes; the handler has
\* not run yet.
ConnectionEnds(c, how) ==
    /\ clients[c].status = "open"
    /\ clients' = [clients EXCEPT ![c].status = how]
    /\ woken' = TRUE
    /\ UNCHANGED <<script, hsv_params, trackbars, connected_clients, broadcaster, cnts, pc,
                   red_frames, frame_ids, was_inside, crossing_counts, total_crossings,
                   event_queue, broadcasted, last, samples, missed>>

\* variant: the connection is discarded after the loop, not in a finally block, and
\* the handler lets ConnectionClosed through
HandlerExit_nofinally(c) ==
    /\ woken
    /\ clients[c].status \in {"closed_ok", "closed_error"}
    /\ connected_clients' = IF clients[c].status = "closed_ok"
                            THEN connected_clients \ {c} ELSE connected_clients
    /\ clients' = [clients EXCEPT ![c].status = "done"]
    /\ UNCHANGED <<script, hsv_params, trackbars, broadcaster, woken, cnts, pc, red_frames,
                   frame_ids, was_inside, crossing_counts, total_crossings, event_queue,
                   broadcasted, last, samples, missed>>

\* websocket_server.py 26-32: the handler resumes: async for ends (closed_ok) or
\* raises ConnectionClosed, which is caught (closed_error); finally discards the
\* connection
HandlerExit(c) ==
    /\ woken
    /\ clients[c].status \in {"closed_ok", "closed_error"}
    /\ connected_clients' = connected_clients \ {c}
    /\ clients' = [clients EXCEPT ![c].status = "done"]
    /\ UNCHANGED <<script, hsv_params, trackbars, broadcaster, woken, cnts, pc, red_frames,
                   frame_ids, was_inside, crossing_counts, total_crossings, event_queue,
                   broadcasted, last, samples, missed>>

\* the masks of a run with clients: one 100 x 100 component
ClientShapeLists ==
    { ss \in LoopShapeLists : Len(ss) = 1 /\ ss[1].obox = <<0, 0, 100, 100>> }

ClientCall(obj_id, box) ==
    /\ Calls < MaxClientCalls
    /\ ProcessObject(obj_id, box)

NextClients ==
    \/ \E ss \in ClientShapeLists : CaptureFrame(ss)
    \/ \E obj_id \in Ids : ClientCall(obj_id, <<40, 40, 60, 60>>)
    \/ StartServer
    \/ EventBroadcaster
    \/ LoopWake
    \/ LoopIdle
    \/ \E c \in Clients : HandlerConnect(c)
    \/ \E c \in Clients, how \in {"closed_ok", "closed_error"} : ConnectionEnds(c, how)
    \/ \E c \in Clients : HandlerExit(c)

SpecClients == Init /\ [][NextClients]_vars

----------------------------------------------------------------------------
(* detect_red_frames as a function of the contours of one mask *)

InitDetect ==
    /\ script = "main"
    /\ hsv_params = DefaultHSV
    /\ trackbars = DefaultHSV
    /\ connected_clients = {}
    /\ clients = [c \in Clients |-> NewClient]
    /\ broadcaster = "none"
    /\ woken = FALSE
    /\ \E ss \in ShapeLists : cnts = FindContours(ss, 0)
    /\ pc = "detect"
    /\ red_frames = <<>>
    /\ frame_ids = {}
    /\ was_inside = <<>>
    /\ crossing_counts = <<>>
    /\ total_crossings = 0
    /\ event_queue = NoQueue
    /\ broadcasted = <<>>
    /\ last = NoCall
    /\ samples = [j \in Ids |-> <<>>]
    /\ missed = [j \in Ids |-> FALSE]

Detect ==
    /\ pc = "detect"
    /\ red_frames' = detect_red_frames(cnts)
    /\ pc' = "detected"
    /\ UNCHANGED <<script, connected_clients, clients, broadcaster, hsv_params, trackbars, woken, cnts, frame_ids, was_inside, crossing_counts, total_crossings,
                   event_queue, broadcasted, last, samples, missed>>

NextDetect == Detect

SpecDetect == InitDetect /\ [][NextDetect]_vars

----------------------------------------------------------------------------
(* Tuning mode (ENABLE_TUNING = True): the trackbars and update_hsv_params *)

\* positions the user leaves a trackbar of each pair at
TrackbarPositions ==
    [h1 |-> {DEFAULT_H1_LOW, DEFAULT_H1_HIGH}, h2 |-> {DEFAULT_H2_LOW, DEFAULT_H2_HIGH},
     s  |-> {DEFAULT_S_LOW, DEFAULT_S_HIGH},   v  |-> {DEFAULT_V_LOW, DEFAULT_V_HIGH}]

\* the pair a trackbar belongs to
PairOf == [h1_low |-> "h1", h1_high |-> "h1", h2_low |-> "h2", h2_high |-> "h2",
           s_low |-> "s", s_high |-> "s", v_low |-> "v", v_high |-> "v"]

Min(a, b) == IF a <= b THEN a ELSE b
Max(a, b) == IF a >= b THEN a ELSE b

\* variant: the positions are stored as read
update_hsv_params_noswap(t) == t

\* update_hsv_params: the thresholds stored for the trackbar positions t
update_hsv_params(t) ==
    [h1_low |-> Min(t.h1_low, t.h1_high), h1_high |-> Max(t.h1_low, t.h1_high),
     h2_low |-> Min(t.h2_low, t.h2_high), h2_high |-> Max(t.h2_low, t.h2_high),
     s_low  |-> Min(t.s_low, t.s_high),   s_high  |-> Max(t.s_low, t.s_high),
     v_low  |-> Min(t.v_low, t.v_high),   v_high  |-> Max(t.v_low, t.v_high)]

\* create_trackbars has run: every trackbar is at its default
InitHSV ==
    /\ script = "main"
    /\ hsv_params = DefaultHSV
    /\ trackbars = DefaultHSV
    /\ connected_clients = {}
    /\ clients = [c \in Clients |-> NewClient]
    /\ broadcaster = "none"
    /\ woken = FALSE
    /\ cnts = <<>>
    /\ pc = "tuning"
    /\ red_frames = <<>>
    /\ frame_ids = {}
    /\ was_inside = <<>>
    /\ crossing_counts = <<>>
    /\ total_crossings = 0
    /\ event_queue = NoQueue
    /\ broadcasted = <<>>
    /\ last = NoCall
    /\ samples = [j \in Ids |-> <<>>]
    /\ missed = [j \in Ids |-> FALSE]

\* the user drags a trackbar to another position
SetTrackbar(bar, pos) ==
    /\ pc \in {"tuning", "updated"}
    /\ trackbars[bar] # pos
    /\ trackbars' = [trackbars EXCEPT ![bar] = pos]
    /\ pc' = "tuning"
    /\ UNCHANGED <<script, connected_clients, clients, broadcaster, hsv_params, woken, cnts, red_frames, frame_ids, was_inside,
                   crossing_counts, total_crossings, event_queue, broadcasted, last,
                   samples, missed>>

\* main.py 140-141: the frame loop calls update_hsv_params
UpdateHSV ==
    /\ pc \in {"tuning", "updated"}
    /\ hsv_params' = update_hsv_params(trackbars)
    /\ pc' = "updated"
    /\ UNCHANGED <<script, connected_clients, clients, broadcaster, trackbars, woken, cnts, red_frames, frame_ids, was_inside,
                   crossing_counts, total_crossings, event_queue, broadcasted, last,
                   samples, missed>>

NextHSV ==
    \/ \E bar \in DOMAIN PairOf : \E pos \in TrackbarPositions[PairOf[bar]] :
           SetTrackbar(bar, pos)
    \/ UpdateHSV

SpecHSV == InitHSV /\ [][NextHSV]_vars

----------------------------------------------------------------------------
(* Properties *)

\* the per-id state as the read accessors see it
CountOf(j) == IF j \in DOMAIN crossing_counts THEN crossing_counts[j] ELSE 0
WasOf(j) == IF j \in DOMAIN was_inside THEN was_inside[j] ELSE FALSE

\* the number of false->true transitions of a sample sequence, the state
\* before the first sample taken as false
Rises(seq) ==
    Cardinality({ k \in 1 .. Len(seq) :
                    seq[k].inside /\ (k = 1 \/ ~seq[k - 1].inside) })

Called == last.id # 0

\* C1: after any sequence of update calls for an id, crossing_counts[id] is the
\* number of false->true transitions of that id's inside/outside samples.
C1_CountIsRises == \A j \in Ids : CountOf(j) = Rises(samples[j])

\* the scenario out, in, in, out, in: two crossings
C1_Witness ==
    \E j \in Ids :
        /\ Len(samples[j]) = 5
        /\ [k \in 1 .. 5 |-> samples[j][k].inside] = <<FALSE, TRUE, TRUE, FALSE, TRUE>>
        /\ CountOf(j) = 2

\* C2: update returns crossed exactly when the object is inside now and the stored
\* was_inside was false; then the per-id count and the total grow by exactly 1,
\* otherwise both are unchanged; was_inside[id] ends up equal to is_inside_now.
C2_UpdateContract ==
    Called =>
        /\ last.crossed <=> (last.is_inside_now /\ ~last.pre_was)
        /\ CountOf(last.id) = last.pre_count + (IF last.crossed THEN 1 ELSE 0)
        /\ total_crossings = last.pre_total + (IF last.crossed THEN 1 ELSE 0)
        /\ last.id \in DOMAIN was_inside
        /\ was_inside[last.id] = last.is_inside_now

\* a second crossing of an id, with another id already counted
C2_Witness ==
    /\ Called
    /\ last.crossed
    /\ last.pre_count = 1
    /\ last.pre_total = 2
    /\ total_crossings = 3

\* C3: between two update calls of an id that both return crossed there is an
\* update call of that id in which no detection qualified.
C3_NoDoubleCount ==
    \A j \in Ids : \A a, b \in 1 .. Len(samples[j]) :
        (a < b /\ samples[j][a].crossed /\ samples[j][b].crossed)
            => \E m \in (a + 1) .. (b - 1) : ~samples[j][m].inside

\* an id that stayed inside for two samples, left and was counted again
C3_Witness ==
    \E j \in Ids :
        /\ Len(samples[j]) = 4
        /\ samples[j][1].crossed /\ samples[j][2].inside /\ ~samples[j][2].crossed
        /\ ~samples[j][3].inside /\ samples[j][4].crossed

\* C4: a detection whose outer-bbox area is at most the object's area never makes
\* the object inside; when every detection is that small, is_inside_now is false
\* and nothing is counted.
C4_AreaGuard ==
    Called =>
        /\ last.is_inside_now =>
              \E k \in 1 .. Len(red_frames) :
                  /\ FrameArea(red_frames[k]) > ObjArea(last.box)
                  /\ is_point_in_bbox(ObjCenter(last.box), red_frames[k].outer_bbox)
        /\ (\A k \in 1 .. Len(red_frames) : FrameArea(red_frames[k]) <= ObjArea(last.box))
              => /\ ~last.is_inside_now
                 /\ ~last.crossed
                 /\ CountOf(last.id) = last.pre_count
                 /\ total_crossings = last.pre_total

\* an object as large as the detection whose centre is well within it
C4_Witness ==
    /\ Called
    /\ Len(red_frames) > 0
    /\ \A k \in 1 .. Len(red_frames) : FrameArea(red_frames[k]) = ObjArea(last.box)
    /\ \E k \in 1 .. Len(red_frames) :
           is_point_in_bbox(ObjCenter(last.box), red_frames[k].outer_bbox)
    /\ ~last.is_inside_now

\* C5: a detection is of type hole only if the outer contour has a child whose
\* area lies within [HOLE_RATIO_MIN, HOLE_RATIO_MAX] x the outer area.
C5_HoleOnlyWithinRatio ==
    \A k \in 1 .. Len(red_frames) :
        red_frames[k].type = "hole" =>
            /\ red_frames[k].inner_contour # Nothing
            /\ 100 * red_frames[k].inner_contour[1].area
                   >= HOLE_RATIO_MIN_PCT * red_frames[k].outer_contour.area
            /\ 100 * red_frames[k].inner_contour[1].area
                   <= HOLE_RATIO_MAX_PCT * red_frames[k].outer_contour.area

\* C6: only outer contours yield detections; a single ring of outer area 5000 and
\* hole area 1000 gives exactly one detection, of type hole, centred at the
\* hole's centroid.
C6_OuterContoursOnly ==
    pc = "detected" =>
        /\ \A k \in 1 .. Len(red_frames) : red_frames[k].outer_contour.parent = NoIdx
        /\ (/\ Len(cnts) = 2
            /\ cnts[1].parent = NoIdx /\ cnts[1].first_child = 2 /\ cnts[1].area = 5000
            /\ cnts[1].rect[3] <= 5 * cnts[1].rect[4]
            /\ cnts[2].parent = 1 /\ cnts[2].area = 1000)
              => /\ Len(red_frames) = 1
                 /\ red_frames[1].type = "hole"
                 /\ red_frames[1].center = contour_center(cnts[2])

\* the frames of the current pass that qualify for the box of the last call
Qualifying == { k \in 1 .. Len(red_frames) :
                  /\ FrameArea(red_frames[k]) > ObjArea(last.box)
                  /\ is_point_in_bbox(ObjCenter(last.box), red_frames[k].outer_bbox) }

\* C7: however many detections qualify in one update call, the per-id count and
\* the total grow by at most 1, and by exactly 1 when the call is a crossing.
C7_OneIncrementPerCall ==
    Called =>
        /\ CountOf(last.id) - last.pre_count \in {0, 1}
        /\ total_crossings - last.pre_total \in {0, 1}
        /\ (Cardinality(Qualifying) >= 2 /\ ~last.pre_was)
              => /\ last.crossed
                 /\ CountOf(last.id) = last.pre_count + 1
                 /\ total_crossings = last.pre_total + 1

\* two detections qualify in a call that is a crossing
C7_Witness ==
    /\ Called
    /\ Cardinality(Qualifying) >= 2
    /\ last.crossed
    /\ CountOf(last.id) = last.pre_count + 1

\* C8: for an id never seen before, a first update whose sample is inside returns
\* crossed and leaves crossing_counts[id] = 1.
C8_FirstInsideCounts ==
    (Called /\ ~last.pre_known /\ last.is_inside_now)
        => /\ last.crossed
           /\ last.id \in DOMAIN crossing_counts
           /\ crossing_counts[last.id] = 1

\* the first sample of an id is inside
C8_Witness ==
    /\ Called
    /\ ~last.pre_known
    /\ Len(samples[last.id]) = 1
    /\ last.is_inside_now
    /\ last.crossed

\* C9: update never fails for an unseen id: it is processed as if it had
\* was_inside = false and crossing_count = 0, and the read of its count that
\* follows yields 0 when it did not cross.
C9_UnseenIdNeverFails ==
    /\ pc # "crashed"
    /\ Called =>
          /\ ~last.raised
          /\ ~last.pre_known =>
                /\ last.pre_count = 0
                /\ last.crossed = last.is_inside_now
                /\ was_inside[last.id] = last.is_inside_now
                /\ last.count = (IF last.is_inside_now THEN 1 ELSE 0)
                /\ crossing_counts[last.id] = last.count

\* an unseen id sampled outside: its count reads 0
C9_Witness ==
    /\ Called
    /\ ~last.pre_known
    /\ ~last.is_inside_now
    /\ last.count = 0
    /\ crossing_counts[last.id] = 0

\* what the tracker holds about id j
Entry(j) == <<j \in DOMAIN was_inside, WasOf(j), j \in DOMAIN crossing_counts, CountOf(j)>>

\* C10: a step changes the tracker state of no id other than the one update was
\* called for, so an id absent from frames keeps its state; an id that was inside,
\* missed a whole frame and comes back inside is not counted again.
C10_IsolatedAndPersistent ==
    /\ [][\A j \in Ids : j # last'.id => Entry(j)' = Entry(j)]_vars
    /\ [](Called /\ last.pre_missed /\ last.pre_was /\ last.is_inside_now
             => /\ ~last.crossed
                /\ CountOf(last.id) = last.pre_count)

\* an id comes back inside after a frame without it, while another id holds a count
C10_Witness ==
    /\ Called
    /\ last.pre_missed /\ last.pre_was /\ last.is_inside_now
    /\ ~last.crossed
    /\ \E j \in Ids : j # last.id /\ CountOf(j) = 1 /\ WasOf(j)

Inverted(box) == box[1] > box[3] \/ box[2] > box[4]

\* C11: update called with a box whose coordinates are inverted fails and leaves
\* was_inside, crossing_counts and total_crossings as they were.
C11_MalformedBoxRejected ==
    (Called /\ Inverted(last.box)) =>
        /\ last.raised
        /\ CountOf(last.id) = last.pre_count
        /\ total_crossings = last.pre_total
        /\ WasOf(last.id) = last.pre_was

\* C12: the queue has a fixed capacity and never holds more events than that.
C12_QueueBounded ==
    ~event_queue.is_none =>
        /\ event_queue.maxsize > 0
        /\ Len(event_queue.items) <= event_queue.maxsize

\* C13: a call of send_crossing_event returns to the frame loop, the event accepted
\* or dropped, and crossing_counts, was_inside and total_crossings are what update
\* left: the crossing is counted whether or not the notification is lost.
C13_SendLeavesTracker ==
    (Called /\ last.sent # "no") =>
        /\ last.sent \in {"accepted", "dropped"}
        /\ pc = "objects"
        /\ CountOf(last.id) = last.pre_count + 1
        /\ CountOf(last.id) = last.count
        /\ total_crossings = last.pre_total + 1
        /\ WasOf(last.id)

\* an event was accepted after an earlier one had been dropped
C13_Witness ==
    /\ Called
    /\ last.sent = "accepted"
    /\ total_crossings > Len(broadcasted) + Len(event_queue.items)
    /\ CountOf(last.id) = 1

\* the events in the order the broadcaster takes them: those broadcast, then
\* those waiting in the queue
Delivery == broadcasted \o event_queue.items

\* C14: the events are broadcast in the order they were emitted: along the
\* delivery order the emission clock strictly increases.
C14_EmissionOrder ==
    \A a, b \in 1 .. Len(Delivery) :
        a < b => Delivery[a].timestamp < Delivery[b].timestamp

\* two events of different objects were broadcast
C14_Witness ==
    /\ Len(broadcasted) >= 2
    /\ broadcasted[1].object_id # broadcasted[2].object_id

\* C15: in the frame loop an update that returns crossed = true is followed by
\* handing one event with the object's id, class label and count after the
\* increment to send_crossing_event; an update that returns crossed = false hands
\* over nothing.
C15_CrossingHandsOneEvent ==
    (Called /\ ~last.raised) =>
        IF last.crossed
        THEN /\ last.sent # "no"
             /\ last.handed.type = "crossing"
             /\ last.handed.object_id = last.id
             /\ last.handed.object_name = NameOf(last.id)
             /\ last.handed.crossing_count = last.pre_count + 1
        ELSE /\ last.sent = "no"
             /\ last.handed = NoEvent

\* C16: every event accepted into the queue is eventually broadcast.
C16_AcceptedEventuallyBroadcast ==
    \A n \in 1 .. MaxServerCalls :
        (Len(Delivery) >= n) ~> (Len(broadcasted) >= n)

\* the filters of detect_red_frames: area at least min_outer_area, a bounding box
\* with width and height, and 0.2 <= width / height <= 5.0
PassesFilters(c) ==
    /\ ~(c.area < 1000)
    /\ ~(c.rect[3] = 0 \/ c.rect[4] = 0)
    /\ ~(5 * c.rect[3] < c.rect[4])
    /\ ~(c.rect[3] > 5 * c.rect[4])

IsOuter(c) == c.parent = NoIdx
OfOuter(d) == IsOuter(d.outer_contour)

\* the outer contours that pass the filters, and the detections made of outer
\* contours, in the order of the list
PassingOuter == { i \in 1 .. Len(cnts) : IsOuter(cnts[i]) /\ PassesFilters(cnts[i]) }
OuterDetections == SelectSeq(red_frames, OfOuter)
RankIn(S, i) == Cardinality({ j \in S : j <= i })

\* the child of contour i passes the hole test of the code (area at least
\* MIN_INNER_AREA) and has a centroid
ChildQualifies(i) ==
    /\ cnts[i].first_child # NoIdx
    /\ cnts[cnts[i].first_child].area >= 300
    /\ cnts[cnts[i].first_child].M.m00 # 0

Passing == { i \in 1 .. Len(cnts) : PassesFilters(cnts[i]) }

\* C18: a contour is discarded exactly when its area is below 1000, its bounding
\* box has no width or height, or its width / height is below 0.2 or above 5.0:
\* the detections are the contours that pass, in order.
C18_FilterBounds ==
    pc = "detected" =>
        /\ Len(red_frames) = Cardinality(Passing)
        /\ \A i \in Passing : red_frames[RankIn(Passing, i)].outer_contour = cnts[i]

\* contours at the bounds were kept and one beyond a bound was discarded
C18_Witness ==
    /\ pc = "detected"
    /\ Len(cnts) = 2
    /\ \E i, j \in 1 .. 2:
           /\ cnts[i].area = 1000 /\ cnts[i].rect[3] = 5 * cnts[i].rect[4]
           /\ cnts[j].area = 5000 /\ 5 * cnts[j].rect[3] < cnts[j].rect[4]
    /\ Len(red_frames) = 1

\* the midpoint of lo and hi, truncated to a whole pixel
TruncatedMid(lo, hi) == CHOOSE c \in 0 .. lo + hi : 2 * c <= lo + hi /\ lo + hi < 2 * c + 2

\* the centre (cx, cy) is within the outer bbox shrunk by a tenth on each side
InShrunkBox(cx, cy, bbox) ==
    /\ 10 * bbox[1] + bbox[3] <= 10 * cx
    /\ 10 * cx <= 10 * bbox[1] + 9 * bbox[3]
    /\ 10 * bbox[2] + bbox[4] <= 10 * cy
    /\ 10 * cy <= 10 * bbox[2] + 9 * bbox[4]

\* the detections larger than the box of the last call
PassesAreaGuard ==
    { k \in 1 .. Len(red_frames) :
        (last.box[3] - last.box[1]) * (last.box[4] - last.box[2])
            < red_frames[k].outer_bbox[3] * red_frames[k].outer_bbox[4] }

\* C19: the object is inside exactly when, for a detection that passes the area
\* guard, its centre (the truncated midpoint of its box) lies within the outer
\* bbox shrunk by 10% on each side, bounds included.
C19_InsideIffInShrunkBox ==
    Called =>
        LET cx == TruncatedMid(last.box[1], last.box[3])
            cy == TruncatedMid(last.box[2], last.box[4])
        IN  last.is_inside_now <=>
                \E k \in PassesAreaGuard : InShrunkBox(cx, cy, red_frames[k].outer_bbox)

\* the truncated centre (90, 50) of a box with midpoint (90.5, 50) is on the upper
\* bound of a 100 x 100 detection and inside
C19_Witness ==
    /\ Called
    /\ last.box = <<81, 40, 100, 60>>
    /\ Len(red_frames) = 1
    /\ red_frames[1].outer_bbox = <<0, 0, 100, 100>>
    /\ last.is_inside_now

\* the threshold pairs: the names of the low and the high value
Pairs == { <<"h1_low", "h1_high">>, <<"h2_low", "h2_high">>,
           <<"s_low", "s_high">>, <<"v_low", "v_high">> }

\* C20: after a call of update_hsv_params every stored pair has low <= high and
\* holds the two positions of its trackbars, swapped when they were inverted.
C20_PairsOrdered ==
    pc = "updated" =>
        \A p \in Pairs :
            /\ hsv_params[p[1]] <= hsv_params[p[2]]
            /\ {hsv_params[p[1]], hsv_params[p[2]]} = {trackbars[p[1]], trackbars[p[2]]}

\* the H1 trackbars were inverted and the stored pair is the swapped one
C20_Witness ==
    /\ pc = "updated"
    /\ trackbars.h1_low > trackbars.h1_high
    /\ hsv_params.h1_low = trackbars.h1_high
    /\ hsv_params.h1_high = trackbars.h1_low

\* the sum of the counts d holds for the ids in S
RECURSIVE SumOver(_, _)
SumOver(d, S) ==
    IF S = {} THEN 0
    ELSE LET j == CHOOSE k \in S : TRUE IN d[j] + SumOver(d, S \ {j})

\* C21: total_crossings is the sum of crossing_counts over all ids, no counter is
\* negative, and no counter decreases in any step.
C21_TotalIsSum ==
    /\ [](/\ total_crossings = SumOver(crossing_counts, DOMAIN crossing_counts)
          /\ total_crossings >= 0
          /\ \A j \in DOMAIN crossing_counts : crossing_counts[j] >= 0)
    /\ [][/\ total_crossings' >= total_crossings
          /\ \A j \in Ids : CountOf(j)' >= CountOf(j)]_vars

\* two ids have crossed, one of them twice
C21_Witness ==
    /\ total_crossings = 3
    /\ CountOf(1) = 2
    /\ CountOf(2) = 1

\* the orders a list of n detections can be in
Orders(n) ==
    { p \in [1 .. n -> 1 .. n] : \A a, b \in 1 .. n : p[a] = p[b] => a = b }

Permuted(frames, p) == [k \in 1 .. Len(frames) |-> frames[p[k]]]

\* C22: update gives the same result and leaves the same was_inside,
\* crossing_counts and total_crossings for every order of the detection list.
C22_OrderIndependent ==
    pc = "objects" =>
        \A obj_id \in Ids, box \in ObjectBoxes, p \in Orders(Len(red_frames)) :
            update(obj_id, box, Permuted(red_frames, p)) = update(obj_id, box, red_frames)

\* a crossing was counted for a box that only the second of two detections contains
C22_Witness ==
    /\ Called
    /\ Len(red_frames) = 2
    /\ ~FrameQualifies(last.box, red_frames[1])
    /\ FrameQualifies(last.box, red_frames[2])
    /\ last.crossed

\* the calls of an id that handed an event to send_crossing_event, in order
Handed(e) == e.handed # 0
HandedOf(j) == SelectSeq(samples[j], Handed)

\* C23: the counts of the events handed over for an id are 1, 2, 3, ... in that
\* order, and the events handed over for all ids are as many as total_crossings.
C23_EventCountsSequential ==
    /\ \A j \in Ids : \A k \in 1 .. Len(HandedOf(j)) : HandedOf(j)[k].handed = k
    /\ SumLen([j \in Ids |-> HandedOf(j)], Ids) = total_crossings

\* events 1 and 2 were handed over for one id and event 1 for another in between
C23_Witness ==
    /\ Len(HandedOf(1)) = 2
    /\ Len(HandedOf(2)) = 1
    /\ last.handed.object_id = 1
    /\ last.handed.crossing_count = 2

\* C24: a crossing that happens while event_queue is None is counted, and its
\* event, discarded by send_crossing_event, is neither queued nor broadcast at
\* any later time.
C24_EarlyEventLost ==
    /\ (Called /\ last.sent = "dropped") =>
           /\ Delivery = <<>>
           /\ CountOf(last.id) = last.pre_count + 1
           /\ total_crossings = last.pre_total + 1
    /\ \A j \in Ids : \A k \in 1 .. Len(samples[j]) :
           samples[j][k].sent = "dropped" =>
               /\ CountOf(j) >= samples[j][k].handed
               /\ \A m \in 1 .. Len(Delivery) :
                      ~(/\ Delivery[m].object_id = j
                        /\ Delivery[m].crossing_count = samples[j][k].handed)

\* the first crossing came before the queue existed; a later one was broadcast
C24_Witness ==
    /\ \E j \in Ids : Len(samples[j]) >= 1 /\ samples[j][1].sent = "dropped"
    /\ Len(broadcasted) >= 1
    /\ total_crossings = 2

\* C25: a send that fails for one client does not end event_broadcaster, and every
\* event taken from the queue reaches each connected client whose connection is
\* open, whatever happens to the sends to the others.
C25_FailedSendIsolated ==
    /\ [](~event_queue.is_none => broadcaster = "running")
    /\ [][broadcasted' # broadcasted =>
             \A c \in connected_clients :
                 clients[c].status = "open" =>
                     clients'[c].received =
                         Append(clients[c].received, broadcasted'[Len(broadcasted')])]_vars

\* two events were broadcast while the connection of one client had ended and its
\* handler had not yet run; the other client received both
C25_Witness ==
    \E c, d \in Clients :
        /\ c # d
        /\ d \in connected_clients
        /\ clients[d].status = "closed_error"
        /\ clients[d].joined = 0
        /\ clients[d].received = <<>>
        /\ Len(broadcasted) = 2
        /\ clients[c].received = broadcasted

\* C26: connected_clients holds exactly the connections whose handler is running,
\* and a client only receives events taken from the queue after it connected: an
\* event taken while nobody is connected reaches no one.
C26_ClientsAreRunningHandlers ==
    /\ connected_clients = { c \in Clients : HandlerRunning(c) }
    /\ \A c \in Clients : \A k \in 1 .. Len(clients[c].received) :
           \E m \in (clients[c].joined + 1) .. Len(broadcasted) :
               broadcasted[m] = clients[c].received[k]

\* the first event was taken with nobody connected; a client that connected
\* afterwards received the second event only, and a connection that ended with
\* ConnectionClosed has been discarded
C26_Witness ==
    /\ Len(broadcasted) = 2
    /\ \E c, d \in Clients :
           /\ clients[c].joined = 1
           /\ clients[c].received = <<broadcasted[2]>>
           /\ clients[d].status = "done"
           /\ clients[d].received = <<>>
           /\ d \notin connected_clients

============================================================================
